---- MODULE Spec2Model ----
(***************************************************************************)
(* Language metadata registry of lingua-rs (src/language.rs).              *)
(*                                                                         *)
(* The registry is the closed enum Language with four lookups written as   *)
(* exhaustive matches (iso_code_639_1, iso_code_639_3, alphabets,          *)
(* unique_characters), the derived enumeration of its variants (EnumIter)  *)
(* and the derived textual deserialization (serde Deserialize with         *)
(* rename_all = "UPPERCASE").                                              *)
(*                                                                         *)
(* Language values, ISO codes and alphabets are modelled as strings        *)
(* carrying the identifier of the source.  Texts (the characters of        *)
(* unique_characters, the variant names, the inputs of deserialization)    *)
(* are sequences of Unicode code points, so that case conversion and       *)
(* character classes are computed per character.                           *)
(*                                                                         *)
(* The state is what the callers hold: each thread walks the enumeration   *)
(* of the languages and keeps its position in it, the last call it         *)
(* completed and the value that call returned.  The registry itself has no *)
(* mutable state in the source.                                            *)
(***************************************************************************)
EXTENDS Integers, Sequences, FiniteSets

VARIABLES result, cursor

vars == <<result, cursor>>

(* The callers.  The properties below compare the calls of two callers,    *)
(* one holding an earlier result while the other goes on calling.          *)
Threads == {"t1", "t2"}

(* The caller that deserializes texts.                                     *)
Loader == "t1"

(* Longest prefix of a renamed variant name offered to deserialization as  *)
(* an input that is no variant name.                                       *)
MaxPrefixLen == 2

(***************************************************************************)
(* enum Language, in declaration order; EnumIter iterates it in this order *)
(***************************************************************************)
all_languages ==
    <<
      "Afrikaans", "Albanian", "Arabic", "Armenian", "Azerbaijani", "Basque",
      "Belarusian", "Bengali", "Bosnian", "Bulgarian", "Catalan", "Chinese",
      "Croatian", "Czech", "Danish", "Dutch", "English", "Esperanto",
      "Estonian", "Finnish", "French", "Georgian", "German", "Greek",
      "Gujarati", "Hebrew", "Hindi", "Hungarian", "Icelandic", "Indonesian",
      "Irish", "Italian", "Japanese", "Kazakh", "Korean", "Latin", "Latvian",
      "Lithuanian", "Macedonian", "Malay", "Marathi", "Mongolian",
      "Norwegian", "Persian", "Polish", "Portuguese", "Punjabi", "Romanian",
      "Russian", "Serbian", "Slovak", "Slovene", "Somali", "Spanish",
      "Swahili", "Swedish", "Tagalog", "Tamil", "Telugu", "Thai", "Turkish",
      "Ukrainian", "Urdu", "Vietnamese", "Welsh", "Yoruba", "Zulu"
    >>

Language == {all_languages[i] : i \in 1..Len(all_languages)}

(* The identifier of each variant, as code points (ASCII).                 *)
variant_name(l) ==
    CASE l = "Afrikaans" -> <<65, 102, 114, 105, 107, 97, 97, 110, 115>>
      [] l = "Albanian" -> <<65, 108, 98, 97, 110, 105, 97, 110>>
      [] l = "Arabic" -> <<65, 114, 97, 98, 105, 99>>
      [] l = "Armenian" -> <<65, 114, 109, 101, 110, 105, 97, 110>>
      [] l = "Azerbaijani" -> <<65, 122, 101, 114, 98, 97, 105, 106, 97, 110, 105>>
      [] l = "Basque" -> <<66, 97, 115, 113, 117, 101>>
      [] l = "Belarusian" -> <<66, 101, 108, 97, 114, 117, 115, 105, 97, 110>>
      [] l = "Bengali" -> <<66, 101, 110, 103, 97, 108, 105>>
      [] l = "Bosnian" -> <<66, 111, 115, 110, 105, 97, 110>>
      [] l = "Bulgarian" -> <<66, 117, 108, 103, 97, 114, 105, 97, 110>>
      [] l = "Catalan" -> <<67, 97, 116, 97, 108, 97, 110>>
      [] l = "Chinese" -> <<67, 104, 105, 110, 101, 115, 101>>
      [] l = "Croatian" -> <<67, 114, 111, 97, 116, 105, 97, 110>>
      [] l = "Czech" -> <<67, 122, 101, 99, 104>>
      [] l = "Danish" -> <<68, 97, 110, 105, 115, 104>>
      [] l = "Dutch" -> <<68, 117, 116, 99, 104>>
      [] l = "English" -> <<69, 110, 103, 108, 105, 115, 104>>
      [] l = "Esperanto" -> <<69, 115, 112, 101, 114, 97, 110, 116, 111>>
      [] l = "Estonian" -> <<69, 115, 116, 111, 110, 105, 97, 110>>
      [] l = "Finnish" -> <<70, 105, 110, 110, 105, 115, 104>>
      [] l = "French" -> <<70, 114, 101, 110, 99, 104>>
      [] l = "Georgian" -> <<71, 101, 111, 114, 103, 105, 97, 110>>
      [] l = "German" -> <<71, 101, 114, 109, 97, 110>>
      [] l = "Greek" -> <<71, 114, 101, 101, 107>>
      [] l = "Gujarati" -> <<71, 117, 106, 97, 114, 97, 116, 105>>
      [] l = "Hebrew" -> <<72, 101, 98, 114, 101, 119>>
      [] l = "Hindi" -> <<72, 105, 110, 100, 105>>
      [] l = "Hungarian" -> <<72, 117, 110, 103, 97, 114, 105, 97, 110>>
      [] l = "Icelandic" -> <<73, 99, 101, 108, 97, 110, 100, 105, 99>>
      [] l = "Indonesian" -> <<73, 110, 100, 111, 110, 101, 115, 105, 97, 110>>
      [] l = "Irish" -> <<73, 114, 105, 115, 104>>
      [] l = "Italian" -> <<73, 116, 97, 108, 105, 97, 110>>
      [] l = "Japanese" -> <<74, 97, 112, 97, 110, 101, 115, 101>>
      [] l = "Kazakh" -> <<75, 97, 122, 97, 107, 104>>
      [] l = "Korean" -> <<75, 111, 114, 101, 97, 110>>
      [] l = "Latin" -> <<76, 97, 116, 105, 110>>
      [] l = "Latvian" -> <<76, 97, 116, 118, 105, 97, 110>>
      [] l = "Lithuanian" -> <<76, 105, 116, 104, 117, 97, 110, 105, 97, 110>>
      [] l = "Macedonian" -> <<77, 97, 99, 101, 100, 111, 110, 105, 97, 110>>
      [] l = "Malay" -> <<77, 97, 108, 97, 121>>
      [] l = "Marathi" -> <<77, 97, 114, 97, 116, 104, 105>>
      [] l = "Mongolian" -> <<77, 111, 110, 103, 111, 108, 105, 97, 110>>
      [] l = "Norwegian" -> <<78, 111, 114, 119, 101, 103, 105, 97, 110>>
      [] l = "Persian" -> <<80, 101, 114, 115, 105, 97, 110>>
      [] l = "Polish" -> <<80, 111, 108, 105, 115, 104>>
      [] l = "Portuguese" -> <<80, 111, 114, 116, 117, 103, 117, 101, 115, 101>>
      [] l = "Punjabi" -> <<80, 117, 110, 106, 97, 98, 105>>
      [] l = "Romanian" -> <<82, 111, 109, 97, 110, 105, 97, 110>>
      [] l = "Russian" -> <<82, 117, 115, 115, 105, 97, 110>>
      [] l = "Serbian" -> <<83, 101, 114, 98, 105, 97, 110>>
      [] l = "Slovak" -> <<83, 108, 111, 118, 97, 107>>
      [] l = "Slovene" -> <<83, 108, 111, 118, 101, 110, 101>>
      [] l = "Somali" -> <<83, 111, 109, 97, 108, 105>>
      [] l = "Spanish" -> <<83, 112, 97, 110, 105, 115, 104>>
      [] l = "Swahili" -> <<83, 119, 97, 104, 105, 108, 105>>
      [] l = "Swedish" -> <<83, 119, 101, 100, 105, 115, 104>>
      [] l = "Tagalog" -> <<84, 97, 103, 97, 108, 111, 103>>
      [] l = "Tamil" -> <<84, 97, 109, 105, 108>>
      [] l = "Telugu" -> <<84, 101, 108, 117, 103, 117>>
      [] l = "Thai" -> <<84, 104, 97, 105>>
      [] l = "Turkish" -> <<84, 117, 114, 107, 105, 115, 104>>
      [] l = "Ukrainian" -> <<85, 107, 114, 97, 105, 110, 105, 97, 110>>
      [] l = "Urdu" -> <<85, 114, 100, 117>>
      [] l = "Vietnamese" -> <<86, 105, 101, 116, 110, 97, 109, 101, 115, 101>>
      [] l = "Welsh" -> <<87, 101, 108, 115, 104>>
      [] l = "Yoruba" -> <<89, 111, 114, 117, 98, 97>>
      [] l = "Zulu" -> <<90, 117, 108, 117>>

(***************************************************************************)
(* The four lookups                                                        *)
(***************************************************************************)
iso_code_639_1(l) ==
    CASE l = "Afrikaans" -> "AF"
      [] l = "Albanian" -> "SQ"
      [] l = "Arabic" -> "AR"
      [] l = "Armenian" -> "HY"
      [] l = "Azerbaijani" -> "AZ"
      [] l = "Basque" -> "EU"
      [] l = "Belarusian" -> "BE"
      [] l = "Bengali" -> "BN"
      [] l = "Bosnian" -> "BS"
      [] l = "Bulgarian" -> "BG"
      [] l = "Catalan" -> "CA"
      [] l = "Chinese" -> "ZH"
      [] l = "Croatian" -> "HR"
      [] l = "Czech" -> "CS"
      [] l = "Danish" -> "DA"
      [] l = "Dutch" -> "NL"
      [] l = "English" -> "EN"
      [] l = "Esperanto" -> "EO"
      [] l = "Estonian" -> "ET"
      [] l = "Finnish" -> "FI"
      [] l = "French" -> "FR"
      [] l = "Georgian" -> "KA"
      [] l = "German" -> "DE"
      [] l = "Greek" -> "EL"
      [] l = "Gujarati" -> "GU"
      [] l = "Hebrew" -> "HE"
      [] l = "Hindi" -> "HI"
      [] l = "Hungarian" -> "HU"
      [] l = "Icelandic" -> "IS"
      [] l = "Indonesian" -> "ID"
      [] l = "Irish" -> "GA"
      [] l = "Italian" -> "IT"
      [] l = "Japanese" -> "JA"
      [] l = "Kazakh" -> "KK"
      [] l = "Korean" -> "KO"
      [] l = "Latin" -> "LA"
      [] l = "Latvian" -> "LV"
      [] l = "Lithuanian" -> "LT"
      [] l = "Macedonian" -> "MK"
      [] l = "Malay" -> "MS"
      [] l = "Marathi" -> "MR"
      [] l = "Mongolian" -> "MN"
      [] l = "Norwegian" -> "NO"
      [] l = "Persian" -> "FA"
      [] l = "Polish" -> "PL"
      [] l = "Portuguese" -> "PT"
      [] l = "Punjabi" -> "PA"
      [] l = "Romanian" -> "RO"
      [] l = "Russian" -> "RU"
      [] l = "Serbian" -> "SR"
      [] l = "Slovak" -> "SK"
      [] l = "Slovene" -> "SL"
      [] l = "Somali" -> "SO"
      [] l = "Spanish" -> "ES"
      [] l = "Swahili" -> "SW"
      [] l = "Swedish" -> "SV"
      [] l = "Tagalog" -> "TL"
      [] l = "Tamil" -> "TA"
      [] l = "Telugu" -> "TE"
      [] l = "Thai" -> "TH"
      [] l = "Turkish" -> "TR"
      [] l = "Ukrainian" -> "UK"
      [] l = "Urdu" -> "UR"
      [] l = "Vietnamese" -> "VI"
      [] l = "Welsh" -> "CY"
      [] l = "Yoruba" -> "YO"
      [] l = "Zulu" -> "ZU"

iso_code_639_3(l) ==
    CASE l = "Afrikaans" -> "AFR"
      [] l = "Albanian" -> "SQI"
      [] l = "Arabic" -> "ARA"
      [] l = "Armenian" -> "HYE"
      [] l = "Azerbaijani" -> "AZE"
      [] l = "Basque" -> "EUS"
      [] l = "Belarusian" -> "BEL"
      [] l = "Bengali" -> "BEN"
      [] l = "Bosnian" -> "BOS"
      [] l = "Bulgarian" -> "BUL"
      [] l = "Catalan" -> "CAT"
      [] l = "Chinese" -> "ZHO"
      [] l = "Croatian" -> "HRV"
      [] l = "Czech" -> "CES"
      [] l = "Danish" -> "DAN"
      [] l = "Dutch" -> "NLD"
      [] l = "English" -> "ENG"
      [] l = "Esperanto" -> "EPO"
      [] l = "Estonian" -> "EST"
      [] l = "Finnish" -> "FIN"
      [] l = "French" -> "FRA"
      [] l = "Georgian" -> "KAT"
      [] l = "German" -> "DEU"
      [] l = "Greek" -> "ELL"
      [] l = "Gujarati" -> "GUJ"
      [] l = "Hebrew" -> "HEB"
      [] l = "Hindi" -> "HIN"
      [] l = "Hungarian" -> "HUN"
      [] l = "Icelandic" -> "ISL"
      [] l = "Indonesian" -> "IND"
      [] l = "Irish" -> "GLE"
      [] l = "Italian" -> "ITA"
      [] l = "Japanese" -> "JPN"
      [] l = "Kazakh" -> "KAZ"
      [] l = "Korean" -> "KOR"
      [] l = "Latin" -> "LAT"
      [] l = "Latvian" -> "LAV"
      [] l = "Lithuanian" -> "LIT"
      [] l = "Macedonian" -> "MKD"
      [] l = "Malay" -> "MSA"
      [] l = "Marathi" -> "MAR"
      [] l = "Mongolian" -> "MON"
      [] l = "Norwegian" -> "NOR"
      [] l = "Persian" -> "FAS"
      [] l = "Polish" -> "POL"
      [] l = "Portuguese" -> "POR"
      [] l = "Punjabi" -> "PAN"
      [] l = "Romanian" -> "RON"
      [] l = "Russian" -> "RUS"
      [] l = "Serbian" -> "SRP"
      [] l = "Slovak" -> "SLK"
      [] l = "Slovene" -> "SLV"
      [] l = "Somali" -> "SOM"
      [] l = "Spanish" -> "SPA"
      [] l = "Swahili" -> "SWA"
      [] l = "Swedish" -> "SWE"
      [] l = "Tagalog" -> "TGL"
      [] l = "Tamil" -> "TAM"
      [] l = "Telugu" -> "TEL"
      [] l = "Thai" -> "THA"
      [] l = "Turkish" -> "TUR"
      [] l = "Ukrainian" -> "UKR"
      [] l = "Urdu" -> "URD"
      [] l = "Vietnamese" -> "VIE"
      [] l = "Welsh" -> "CYM"
      [] l = "Yoruba" -> "YOR"
      [] l = "Zulu" -> "ZUL"

alphabets(l) ==
    CASE l \in {
             "Afrikaans", "Albanian", "Azerbaijani", "Basque", "Bosnian",
             "Catalan", "Croatian", "Czech", "Danish", "Dutch", "English",
             "Esperanto", "Estonian", "Finnish", "French", "German",
             "Hungarian", "Icelandic", "Indonesian", "Irish", "Italian",
             "Latin", "Latvian", "Lithuanian", "Malay", "Norwegian", "Polish",
             "Portuguese", "Romanian", "Slovak", "Slovene", "Somali",
             "Spanish", "Swahili", "Swedish", "Tagalog", "Turkish",
             "Vietnamese", "Welsh", "Yoruba", "Zulu"} -> {"Latin"}
      [] l \in {
             "Belarusian", "Bulgarian", "Kazakh", "Macedonian", "Mongolian",
             "Russian", "Serbian", "Ukrainian"} -> {"Cyrillic"}
      [] l \in {
             "Arabic", "Persian", "Urdu"} -> {"Arabic"}
      [] l \in {
             "Hindi", "Marathi"} -> {"Devanagari"}
      [] l = "Armenian" -> {"Armenian"}
      [] l = "Bengali" -> {"Bengali"}
      [] l = "Chinese" -> {"Han"}
      [] l = "Georgian" -> {"Georgian"}
      [] l = "Greek" -> {"Greek"}
      [] l = "Gujarati" -> {"Gujarati"}
      [] l = "Hebrew" -> {"Hebrew"}
      [] l = "Japanese" -> {"Hiragana", "Katakana", "Han"}
      [] l = "Korean" -> {"Hangul"}
      [] l = "Punjabi" -> {"Gurmukhi"}
      [] l = "Tamil" -> {"Tamil"}
      [] l = "Telugu" -> {"Telugu"}
      [] l = "Thai" -> {"Thai"}

(* The string literals of the source, as code points.                      *)
unique_characters(l) ==
    CASE l = "Albanian" -> <<203, 235>>
      [] l = "Azerbaijani" -> <<399, 601>>
      [] l = "Catalan" -> <<207, 239>>
      [] l = "Czech" -> <<282, 283, 344, 345, 366, 367>>
      [] l = "Esperanto" -> 
           <<264, 265, 284, 285, 292, 293, 308, 309, 348, 349, 364, 365>>
      [] l = "German" -> <<223>>
      [] l = "Hungarian" -> <<336, 337, 368, 369>>
      [] l = "Kazakh" -> 
           <<1240, 1241, 1170, 1171, 1178, 1179, 1186, 1187, 1200, 1201>>
      [] l = "Latvian" -> <<290, 291, 310, 311, 315, 316, 325, 326>>
      [] l = "Lithuanian" -> <<278, 279, 302, 303, 370, 371>>
      [] l = "Macedonian" -> <<1027, 1107, 1029, 1109, 1036, 1116, 1039, 1119>>
      [] l = "Marathi" -> <<2355>>
      [] l = "Mongolian" -> <<1256, 1257, 1198, 1199>>
      [] l = "Polish" -> <<321, 322, 323, 324, 346, 347, 377, 378>>
      [] l = "Romanian" -> <<538, 355>>
      [] l = "Serbian" -> <<1026, 1106, 1035, 1115>>
      [] l = "Slovak" -> <<313, 314, 317, 318, 340, 341>>
      [] l = "Spanish" -> <<191, 161>>
      [] l = "Ukrainian" -> <<1168, 1169, 1028, 1108, 1031, 1111>>
      [] l = "Vietnamese" -> 
           <<7856, 7857, 7846, 7847, 7858, 7859, 7848, 7849, 7860, 7861, 7850,
             7851, 7854, 7855, 7844, 7845, 7840, 7841, 7862, 7863, 7852, 7853,
             7872, 7873, 7866, 7867, 7874, 7875, 7868, 7869, 7876, 7877, 7870,
             7871, 7878, 7879, 7880, 7881, 296, 297, 7882, 7883, 416, 417,
             7890, 7891, 7900, 7901, 7886, 7887, 7892, 7893, 7902, 7903, 7894,
             7895, 7904, 7905, 7888, 7889, 7898, 7899, 7896, 7897, 7906, 7907,
             431, 432, 7914, 7915, 7910, 7911, 7916, 7917, 360, 361, 7918,
             7919, 7912, 7913, 7908, 7909, 7920, 7921, 7922, 7923, 7926, 7927,
             7928, 7929, 7924, 7925>>
      [] l = "Yoruba" -> <<332, 333, 7778, 7779>>
      [] OTHER -> <<>>

(***************************************************************************)
(* Deserialization: #[derive(Deserialize)] with                            *)
(* #[serde(rename_all(deserialize = "UPPERCASE"))].  The rename rule       *)
(* rewrites each variant identifier with the ASCII upper-casing; the       *)
(* derived visitor compares the input text with the renamed identifiers,   *)
(* byte for byte, and reports an unknown variant otherwise.  The input     *)
(* itself is never converted.                                              *)
(***************************************************************************)
to_ascii_uppercase(s) ==
    [i \in 1..Len(s) |-> IF s[i] \in 97..122 THEN s[i] - 32 ELSE s[i]]

(* The renamed identifiers, in declaration order.                          *)
VARIANTS ==
    [i \in 1..Len(all_languages) |->
        to_ascii_uppercase(variant_name(all_languages[i]))]

Ok(l) == [ok |-> TRUE, language |-> l]

unknown_variant(s) == [ok |-> FALSE, error |-> "unknown_variant", value |-> s]

(* A slip: the input is upper-cased before the comparison.                 *)
deserialize_any_case(s) ==
    LET hits == {i \in 1..Len(VARIANTS) : VARIANTS[i] = to_ascii_uppercase(s)}
    IN  IF hits = {}
        THEN unknown_variant(s)
        ELSE Ok(all_languages[CHOOSE i \in hits : \A j \in hits : i <= j])

(* A slip: the rename attribute is missing, the identifiers are compared   *)
(* as declared.                                                            *)
deserialize_not_renamed(s) ==
    LET hits == {i \in 1..Len(all_languages) :
                    variant_name(all_languages[i]) = s}
    IN  IF hits = {}
        THEN unknown_variant(s)
        ELSE Ok(all_languages[CHOOSE i \in hits : \A j \in hits : i <= j])

(* A slip: a catch-all variant (#[serde(other)]) absorbs unknown texts.    *)
deserialize_with_default(s) ==
    LET hits == {i \in 1..Len(VARIANTS) : VARIANTS[i] = s}
    IN  IF hits = {}
        THEN Ok(all_languages[1])
        ELSE Ok(all_languages[CHOOSE i \in hits : \A j \in hits : i <= j])

deserialize(s) ==
    LET hits == {i \in 1..Len(VARIANTS) : VARIANTS[i] = s}
    IN  IF hits = {}
        THEN unknown_variant(s)
        ELSE Ok(all_languages[CHOOSE i \in hits : \A j \in hits : i <= j])

(***************************************************************************)
(* Inputs offered to deserialization: for every language its identifier    *)
(* upper-cased, as declared and lower-cased, and the short prefixes of the *)
(* upper-cased identifier (the empty text included).                       *)
(***************************************************************************)
to_ascii_lowercase(s) ==
    [i \in 1..Len(s) |-> IF s[i] \in 65..90 THEN s[i] + 32 ELSE s[i]]

Min(a, b) == IF a <= b THEN a ELSE b

Inputs ==
    UNION {
        {to_ascii_uppercase(variant_name(l)),
         variant_name(l),
         to_ascii_lowercase(variant_name(l))}
        \cup {SubSeq(to_ascii_uppercase(variant_name(l)), 1,
                     Min(k, Len(variant_name(l)))) : k \in 0..MaxPrefixLen}
        : l \in Language}

(***************************************************************************)
(* The callers' state.  result[t] is the last call thread t completed,     *)
(* cursor[t] the position in the enumeration of the language t holds (0:   *)
(* none).  A thread gets a language by walking the enumeration or by       *)
(* deserializing a text.                                                   *)
(*                                                                         *)
(* A completed call is a record: op the operation, arg the language it was *)
(* called on, text the text given to deserialization, and one field per    *)
(* type of returned value: languages (the enumeration), language (an item  *)
(* of the enumeration, or the language deserialized), code (an ISO code),  *)
(* alphabets (a set), characters (a text), error and unknown (the kind of  *)
(* a failure and the text it carries).  Fields a call does not use keep    *)
(* the value they have in NoCall.                                          *)
(***************************************************************************)
NoCall ==
    [op |-> "none", arg |-> "none", text |-> <<>>, languages |-> <<>>,
     language |-> "none", code |-> "none", alphabets |-> {},
     characters |-> <<>>, error |-> "none", unknown |-> <<>>]

Call(op, arg) == [NoCall EXCEPT !.op = op, !.arg = arg]

current(t) == all_languages[cursor[t]]

Init ==
    /\ result = [t \in Threads |-> NoCall]
    /\ cursor = [t \in Threads |-> 0]

(* A slip: the enumeration stops one variant short.                        *)
call_all_languages_short(t) ==
    /\ result' = [result EXCEPT ![t] =
                     [Call("all_languages", "none") EXCEPT !.languages =
                         SubSeq(all_languages, 1, Len(all_languages) - 1)]]
    /\ cursor' = [cursor EXCEPT ![t] = 0]

(* Language::iter() of the derived EnumIter: the whole enumeration, from   *)
(* its first variant; it can be obtained again at any time.                *)
call_all_languages(t) ==
    /\ result' = [result EXCEPT ![t] =
                     [Call("all_languages", "none") EXCEPT !.languages =
                         all_languages]]
    /\ cursor' = [cursor EXCEPT ![t] = 0]

(* The caller takes the next language of the enumeration.                  *)
next(t) ==
    /\ cursor[t] < Len(all_languages)
    /\ cursor' = [cursor EXCEPT ![t] = cursor[t] + 1]
    /\ result' = [result EXCEPT ![t] =
                     [Call("next", "none") EXCEPT !.language =
                         all_languages[cursor[t] + 1]]]

(* A slip in one arm of the match: Slovene gets the code of Slovak.        *)
call_iso_code_639_1_slip(t) ==
    /\ cursor[t] >= 1
    /\ result' = [result EXCEPT ![t] =
                     [Call("iso_code_639_1", current(t)) EXCEPT !.code =
                         IF current(t) = "Slovene"
                         THEN "SK"
                         ELSE iso_code_639_1(current(t))]]
    /\ UNCHANGED cursor

call_iso_code_639_1(t) ==
    /\ cursor[t] >= 1
    /\ result' = [result EXCEPT ![t] =
                     [Call("iso_code_639_1", current(t)) EXCEPT !.code =
                         iso_code_639_1(current(t))]]
    /\ UNCHANGED cursor

call_iso_code_639_3(t) ==
    /\ cursor[t] >= 1
    /\ result' = [result EXCEPT ![t] =
                     [Call("iso_code_639_3", current(t)) EXCEPT !.code =
                         iso_code_639_3(current(t))]]
    /\ UNCHANGED cursor

(* A slip in one arm of the match: hashset!() without an alphabet.         *)
call_alphabets_empty(t) ==
    /\ cursor[t] >= 1
    /\ result' = [result EXCEPT ![t] =
                     [Call("alphabets", current(t)) EXCEPT !.alphabets =
                         IF current(t) = "Thai"
                         THEN {}
                         ELSE alphabets(current(t))]]
    /\ UNCHANGED cursor

(* A slip in one arm of the match: Japanese without Han.                   *)
call_alphabets_kana(t) ==
    /\ cursor[t] >= 1
    /\ result' = [result EXCEPT ![t] =
                     [Call("alphabets", current(t)) EXCEPT !.alphabets =
                         IF current(t) = "Japanese"
                         THEN {"Hiragana", "Katakana"}
                         ELSE alphabets(current(t))]]
    /\ UNCHANGED cursor

(* Each call builds a fresh HashSet, owned by the caller.                  *)
call_alphabets(t) ==
    /\ cursor[t] >= 1
    /\ result' = [result EXCEPT ![t] =
                     [Call("alphabets", current(t)) EXCEPT !.alphabets =
                         alphabets(current(t))]]
    /\ UNCHANGED cursor

(* A slip in one literal: a stray comma (U+002C) in the text of Slovak.    *)
call_unique_characters_comma(t) ==
    /\ cursor[t] >= 1
    /\ result' = [result EXCEPT ![t] =
                     [Call("unique_characters", current(t)) EXCEPT
                         !.characters =
                             IF current(t) = "Slovak"
                             THEN <<313, 314, 44, 317, 318, 340, 341>>
                             ELSE unique_characters(current(t))]]
    /\ UNCHANGED cursor

(* A slip in one literal: Slovak also lists U+0141, U+0142 of Polish.      *)
call_unique_characters_shared(t) ==
    /\ cursor[t] >= 1
    /\ result' = [result EXCEPT ![t] =
                     [Call("unique_characters", current(t)) EXCEPT
                         !.characters =
                             IF current(t) = "Slovak"
                             THEN <<313, 314, 317, 318, 340, 341, 321, 322>>
                             ELSE unique_characters(current(t))]]
    /\ UNCHANGED cursor

call_unique_characters(t) ==
    /\ cursor[t] >= 1
    /\ result' = [result EXCEPT ![t] =
                     [Call("unique_characters", current(t)) EXCEPT
                         !.characters = unique_characters(current(t))]]
    /\ UNCHANGED cursor

(* Deserialization of a text: on success the caller holds the language,    *)
(* on failure it holds the error and no language.                          *)
call_deserialize(t, s) ==
    \E r \in {deserialize(s)} :
        IF r.ok
        THEN /\ result' = [result EXCEPT ![t] =
                              [Call("deserialize", "none") EXCEPT
                                  !.text = s, !.language = r.language]]
             /\ cursor' = [cursor EXCEPT ![t] =
                              CHOOSE i \in 1..Len(all_languages) :
                                  all_languages[i] = r.language]
        ELSE /\ result' = [result EXCEPT ![t] =
                              [Call("deserialize", "none") EXCEPT
                                  !.text = s, !.error = r.error,
                                  !.unknown = r.value]]
             /\ cursor' = [cursor EXCEPT ![t] = 0]

(* The lookups, called by any thread at any time, in any interleaving.     *)
Next ==
    \E t \in Threads :
        \/ call_all_languages(t)
        \/ next(t)
        \/ call_iso_code_639_1(t)
        \/ call_iso_code_639_3(t)
        \/ call_alphabets(t)
        \/ call_unique_characters(t)

Spec == Init /\ [][Next]_vars

(* A caller deserializes texts, one at a time, and looks up the language   *)
(* it got.                                                                 *)
NextDeserialize ==
    \/ \E s \in Inputs : call_deserialize(Loader, s)
    \/ call_iso_code_639_1(Loader)
    \/ call_iso_code_639_3(Loader)
    \/ call_alphabets(Loader)
    \/ call_unique_characters(Loader)

SpecDeserialize == Init /\ [][NextDeserialize]_vars

(***************************************************************************)
(* Helpers of the properties                                               *)
(***************************************************************************)
chars(s) == {s[i] : i \in 1..Len(s)}

no_duplicates(s) == \A i, j \in 1..Len(s) : s[i] = s[j] => i = j

(* Unicode general category L* (letter) or M* (mark), for the blocks the   *)
(* catalogue draws from: Basic Latin and Latin-1 Supplement, Latin         *)
(* Extended-A and -B, IPA Extensions, Cyrillic, Devanagari and Latin       *)
(* Extended Additional.                                                    *)
(* U+00A1 and U+00BF are category Po (punctuation), U+002C too.            *)
is_letter_or_mark(c) ==
    CASE c \in 0..255 ->
            \/ c \in 65..90
            \/ c \in 97..122
            \/ c \in {170, 181, 186}
            \/ c \in 192..214
            \/ c \in 216..246
            \/ c \in 248..255
      [] c \in 256..687 -> TRUE
      [] c \in 1024..1279 -> c # 1154
      [] c \in 2304..2431 -> c \in 2304..2403 \/ c \in 2417..2431
      [] c \in 7680..7935 -> TRUE

variant_of(l) == to_ascii_uppercase(variant_name(l))

Lookups ==
    {"iso_code_639_1", "iso_code_639_3", "alphabets", "unique_characters"}

(***************************************************************************)
(* C1                                                                      *)
(***************************************************************************)

(* C1, as stated: the enumeration of the languages yields exactly 65       *)
(* values and no value twice.  The enum declares 67 variants.              *)
C1_enumeration_has_65 ==
    \A t \in Threads :
        result[t].op = "all_languages" =>
            /\ Len(result[t].languages) = 65
            /\ no_duplicates(result[t].languages)

(* C1, amended: the enumeration of the languages yields exactly 67 values  *)
(* and no value twice.                                                     *)
C1_enumeration_has_67 ==
    \A t \in Threads :
        result[t].op = "all_languages" =>
            /\ Len(result[t].languages) = 67
            /\ no_duplicates(result[t].languages)

C1_witness == \E t \in Threads : result[t].op = "all_languages"

(***************************************************************************)
(* C2                                                                      *)
(***************************************************************************)

(* C2: two distinct languages never have the same ISO 639-1 code, nor the  *)
(* same ISO 639-3 code: whenever two callers hold the code of the same     *)
(* kind for two distinct languages, the two codes differ.                  *)
C2_iso_codes_injective ==
    \A t1, t2 \in Threads :
        /\ result[t1].op \in {"iso_code_639_1", "iso_code_639_3"}
        /\ result[t2].op = result[t1].op
        /\ result[t1].arg # result[t2].arg
        => result[t1].code # result[t2].code

C2_witness ==
    \E t1, t2 \in Threads :
        /\ result[t1].op = "iso_code_639_1"
        /\ result[t2].op = "iso_code_639_1"
        /\ result[t1].arg = "Slovak"
        /\ result[t2].arg = "Slovene"

(***************************************************************************)
(* C3                                                                      *)
(***************************************************************************)

(* C3, as stated: deserialization accepts the name of a language in any    *)
(* case: a text that equals the name of L up to the case of its letters    *)
(* yields L.                                                               *)
C3_any_case_accepted ==
    \A t \in Threads : \A l \in Language :
        /\ result[t].op = "deserialize"
        /\ to_ascii_uppercase(result[t].text) = variant_of(l)
        => /\ result[t].error = "none"
           /\ result[t].language = l

(* C3, amended: deserialization accepts exactly the upper-cased name: a    *)
(* text yields L if and only if it is the name of L in upper case, and a   *)
(* text that differs from it, be it only in the case of a letter, is       *)
(* rejected as an unknown variant.  The input is not converted.            *)
C3_only_uppercase_accepted ==
    \A t \in Threads : \A l \in Language :
        result[t].op = "deserialize" =>
            /\ result[t].language = l <=> result[t].text = variant_of(l)
            /\ /\ to_ascii_uppercase(result[t].text) = variant_of(l)
               /\ result[t].text # variant_of(l)
               => /\ result[t].error = "unknown_variant"
                  /\ result[t].language = "none"

C3_witness ==
    \E t \in Threads :
        /\ result[t].op = "deserialize"
        /\ result[t].text = variant_name("English")
        /\ result[t].error = "unknown_variant"

(***************************************************************************)
(* C4                                                                      *)
(***************************************************************************)

(* C4: round trip: for every language L the upper-cased name of L          *)
(* deserializes to L, and it is the upper-cased name of no other language. *)
C4_round_trip ==
    \A t \in Threads : \A l \in Language :
        /\ result[t].op = "deserialize"
        /\ result[t].text = to_ascii_uppercase(variant_name(l))
        => /\ result[t].error = "none"
           /\ result[t].language = l
           /\ all_languages[cursor[t]] = l
           /\ \A l2 \in Language \ {l} :
                  result[t].text # to_ascii_uppercase(variant_name(l2))

C4_witness ==
    \E t \in Threads :
        /\ result[t].op = "deserialize"
        /\ result[t].text = to_ascii_uppercase(variant_name("Zulu"))
        /\ result[t].language = "Zulu"

(***************************************************************************)
(* C5                                                                      *)
(***************************************************************************)

(* C5: a text that is no name of the catalogue fails with the one error    *)
(* kind of deserialization, which carries the text; the caller gets no     *)
(* language, so none is defaulted, and every lookup that follows is made   *)
(* on a language a successful call returned; no lookup reports an error.   *)
C5_unknown_text_fails ==
    \A t \in Threads :
        /\ /\ result[t].op = "deserialize"
           /\ \A l \in Language : result[t].text # variant_of(l)
           => /\ result[t].error = "unknown_variant"
              /\ result[t].unknown = result[t].text
              /\ result[t].language = "none"
              /\ cursor[t] = 0
        /\ result[t].op \in Lookups
           => /\ cursor[t] >= 1
              /\ result[t].arg = all_languages[cursor[t]]
              /\ result[t].error = "none"

C5_witness ==
    \E t \in Threads :
        /\ result[t].op = "deserialize"
        /\ result[t].text = <<69, 78>>
        /\ result[t].error = "unknown_variant"
        /\ cursor[t] = 0

(***************************************************************************)
(* C6                                                                      *)
(***************************************************************************)

(* C6, as stated: every character of unique_characters(L) is a letter or a *)
(* mark, for every language L.  The two characters of Spanish, U+00BF and  *)
(* U+00A1, are punctuation.                                                *)
C6_only_letters_or_marks ==
    \A t \in Threads :
        result[t].op = "unique_characters" =>
            \A c \in chars(result[t].characters) : is_letter_or_mark(c)

(* C6, amended: every character of unique_characters(L) is a letter or a   *)
(* mark for every language L but Spanish; unique_characters(Spanish) is    *)
(* the two punctuation marks U+00BF, U+00A1 (inverted question mark and    *)
(* inverted exclamation mark).  The empty text is allowed.                 *)
C6_letters_or_marks_but_spanish ==
    \A t \in Threads :
        result[t].op = "unique_characters" =>
            IF result[t].arg = "Spanish"
            THEN /\ result[t].characters = <<191, 161>>
                 /\ \A c \in chars(result[t].characters) :
                        ~is_letter_or_mark(c)
            ELSE \A c \in chars(result[t].characters) : is_letter_or_mark(c)

C6_witness ==
    \E t1, t2 \in Threads :
        /\ result[t1].op = "unique_characters"
        /\ result[t1].arg = "Spanish"
        /\ result[t2].op = "unique_characters"
        /\ result[t2].arg = "Slovak"
        /\ result[t2].characters # <<>>

(***************************************************************************)
(* C7                                                                      *)
(***************************************************************************)

(* C7: alphabets(L) is a non-empty set, for every language L.              *)
C7_alphabets_non_empty ==
    \A t \in Threads :
        result[t].op = "alphabets" => result[t].alphabets # {}

C7_witness ==
    \E t \in Threads : result[t].op = "alphabets" /\ result[t].arg = "Thai"

(***************************************************************************)
(* C8                                                                      *)
(***************************************************************************)

(* C8: Japanese is the one language with more than one writing system:     *)
(* alphabets(Japanese) is {Hiragana, Katakana, Han}, alphabets(Chinese) is *)
(* {Han}, and alphabets(L) has one element for every L but Japanese.       *)
C8_only_japanese_multi_script ==
    \A t \in Threads :
        result[t].op = "alphabets" =>
            /\ result[t].arg = "Japanese" =>
                   result[t].alphabets = {"Hiragana", "Katakana", "Han"}
            /\ result[t].arg = "Chinese" => result[t].alphabets = {"Han"}
            /\ result[t].arg # "Japanese" =>
                   Cardinality(result[t].alphabets) = 1

C8_witness ==
    \E t1, t2 \in Threads :
        /\ result[t1].op = "alphabets"
        /\ result[t1].arg = "Japanese"
        /\ Cardinality(result[t1].alphabets) = 3
        /\ result[t2].op = "alphabets"
        /\ result[t2].arg = "Chinese"

(***************************************************************************)
(* C10                                                                     *)
(***************************************************************************)

(* C10: no character occurs in the unique characters of two distinct       *)
(* languages, and none occurs twice in the unique characters of one        *)
(* language.                                                               *)
C10_unique_characters_disjoint ==
    \A t1, t2 \in Threads :
        result[t1].op = "unique_characters" =>
            /\ no_duplicates(result[t1].characters)
            /\ /\ result[t2].op = "unique_characters"
               /\ result[t2].arg # result[t1].arg
               => chars(result[t1].characters)
                      \cap chars(result[t2].characters) = {}

C10_witness ==
    \E t1, t2 \in Threads :
        /\ result[t1].op = "unique_characters"
        /\ result[t1].arg = "Polish"
        /\ result[t1].characters # <<>>
        /\ result[t2].op = "unique_characters"
        /\ result[t2].arg = "Slovak"
        /\ result[t2].characters # <<>>

====
